---- MODULE Spec2Model ----
(***************************************************************************)
(* Model of src/app.py: a role-gated quiz platform (Flask + SQLAlchemy on  *)
(* SQLite).  The store is the four tables User, Topic, Question and        *)
(* TestResult; every request handler is one action that reads the session  *)
(* of the calling client, runs the decorator's role check, validates the   *)
(* form and commits or fails as a whole.                                   *)
(*                                                                         *)
(* Values.  request.form.get(k) is a string, or None when the field is     *)
(* absent: None is a value of its own, which no form can send as a string. *)
(* Row ids are positive integers; an empty foreign key (NULL) is NoId.     *)
(* A Python float is an IEEE-754 double: FloatOf rounds m * 2^e to 53      *)
(* significant bits, round-half-to-even, on naturals held as little-endian *)
(* limb sequences (TLC's integers are too narrow for a mantissa).          *)
(*                                                                         *)
(* Columns that no handler's branch reads (created_at, updated_at,         *)
(* completed_at, order_num, description, option_1..4, explanation,         *)
(* difficulty) are left out; of a question's mandatory columns topic_id,   *)
(* text and correct are kept, which the handlers treat like the options.   *)
(***************************************************************************)
EXTENDS Integers, Sequences, FiniteSets, TLC

(***************************************************************************)
(* Naturals of any size: little-endian sequences of limbs in 0..Base-1,    *)
(* without leading zero limbs.  Small operands (n, carry) are integers     *)
(* below Base, so every intermediate value fits TLC's integers.            *)
(***************************************************************************)
LimbBits == 15

Base == 2 ^ LimbBits

RECURSIVE NatOf(_)
NatOf(n) == IF n = 0 THEN <<>> ELSE <<n % Base>> \o NatOf(n \div Base)

\* a without its leading (most significant) zero limbs
Trim(a) ==
  LET nz == {i \in 1..Len(a) : a[i] # 0}
  IN  IF nz = {} THEN <<>>
      ELSE SubSeq(a, 1, CHOOSE i \in nz : \A j \in nz : j <= i)

RECURSIVE BitLenInt(_)
BitLenInt(n) == IF n = 0 THEN 0 ELSE 1 + BitLenInt(n \div 2)

BitLen(a) == IF a = <<>> THEN 0 ELSE LimbBits * (Len(a) - 1) + BitLenInt(a[Len(a)])

RECURSIVE MulSmall(_, _, _)
\* a * n + carry
MulSmall(a, n, carry) ==
  IF a = <<>> THEN NatOf(carry)
  ELSE LET v == Head(a) * n + carry
       IN  <<v % Base>> \o MulSmall(Tail(a), n, v \div Base)

RECURSIVE DivSmall(_, _)
\* [q, r] with a = q * n + r, 0 <= r < n; q keeps a's length (leading zeros)
DivSmall(a, n) ==
  IF a = <<>> THEN [q |-> <<>>, r |-> 0]
  ELSE LET hi == DivSmall(Tail(a), n)
           v  == hi.r * Base + Head(a)
       IN  [q |-> <<v \div n>> \o hi.q, r |-> v % n]

RECURSIVE AddNat(_, _, _)
AddNat(a, b, carry) ==
  IF a = <<>> /\ b = <<>> THEN NatOf(carry)
  ELSE LET x == IF a = <<>> THEN 0 ELSE Head(a)
           y == IF b = <<>> THEN 0 ELSE Head(b)
           v == x + y + carry
       IN  <<v % Base>> \o AddNat(IF a = <<>> THEN <<>> ELSE Tail(a),
                                  IF b = <<>> THEN <<>> ELSE Tail(b),
                                  v \div Base)

RECURSIVE SubNat(_, _, _)
\* a - b - borrow for a >= b + borrow (leading zeros kept)
SubNat(a, b, borrow) ==
  IF a = <<>> THEN <<>>
  ELSE LET y == IF b = <<>> THEN 0 ELSE Head(b)
           d == Head(a) - y - borrow
       IN  <<(d + Base) % Base>> \o SubNat(Tail(a),
                                           IF b = <<>> THEN <<>> ELSE Tail(b),
                                           IF d < 0 THEN 1 ELSE 0)

\* a <= b, both without leading zeros
LeqNat(a, b) ==
  IF Len(a) # Len(b) THEN Len(a) < Len(b)
  ELSE LET diff == {i \in 1..Len(a) : a[i] # b[i]}
       IN  diff = {} \/ (LET i == CHOOSE i \in diff : \A j \in diff : j <= i
                         IN  a[i] < b[i])

AbsDiffNat(a, b) ==
  IF LeqNat(a, b) THEN Trim(SubNat(b, a, 0)) ELSE Trim(SubNat(a, b, 0))

\* a * 2^k
ShiftLeft(a, k) ==
  IF a = <<>> THEN <<>>
  ELSE [i \in 1..(k \div LimbBits) |-> 0] \o MulSmall(a, 2 ^ (k % LimbBits), 0)

\* a \div 2^k
ShiftRight(a, k) ==
  IF k \div LimbBits >= Len(a) THEN <<>>
  ELSE Trim(DivSmall(SubSeq(a, (k \div LimbBits) + 1, Len(a)), 2 ^ (k % LimbBits)).q)

IsOdd(a) == a # <<>> /\ a[1] % 2 = 1

(***************************************************************************)
(* IEEE-754 double precision, for the non-negative values the program      *)
(* computes: [m, e] is m * 2^e with m of exactly MantBits bits, or zero.    *)
(***************************************************************************)
MantBits == 53

FloatZero == [m |-> <<>>, e |-> 0]

\* the double nearest to n * 2^e, ties to even
FloatOf(n, e) ==
  IF n = <<>> THEN FloatZero
  ELSE IF BitLen(n) <= MantBits
       THEN [m |-> ShiftLeft(n, MantBits - BitLen(n)), e |-> e - (MantBits - BitLen(n))]
  ELSE LET d    == BitLen(n) - MantBits
           high == ShiftRight(n, d)
           low  == AbsDiffNat(n, ShiftLeft(high, d))
           half == ShiftLeft(<<1>>, d - 1)
           up   == IF low = half THEN IsOdd(high) ELSE LeqNat(half, low)
           r    == IF up THEN AddNat(high, <<1>>, 0) ELSE high
       IN  IF BitLen(r) > MantBits
           THEN [m |-> ShiftRight(r, 1), e |-> e + d + 1]
           ELSE [m |-> r, e |-> e + d]

\* Python's a / b on ints 0 <= a, 0 < b < Base: the correctly rounded quotient
FloatDiv(a, b) ==
  LET k  == MantBits + LimbBits
      qr == DivSmall(ShiftLeft(NatOf(a), k), b)
      n  == MulSmall(Trim(qr.q), 2, IF qr.r # 0 THEN 1 ELSE 0)
  IN  FloatOf(n, 0 - (k + 1))

\* Python's x * n for a float x and an int 0 <= n < Base
FloatMulInt(x, n) == FloatOf(Trim(MulSmall(x.m, n, 0)), x.e)

(***************************************************************************)
(* Values of the web layer and of the store.                               *)
(***************************************************************************)
\* Python's None: an absent form field, a NULL string column
None == "<None>"

\* Python truthiness of a form value: `if x`, `not x`, all([...])
Truthy(v) == v # None /\ v # ""

\* a NULL integer column (created_by), and "no user" in a session
NoId == 0

\* str(i) of a row id, and its inverse: the INTEGER column affinity that turns
\* the text of a form field into the integer stored (a text that is no number
\* is stored as it is and equals no row id: NotAnId)
Digits == <<"1", "2", "3", "4", "5", "6", "7", "8", "9", "10", "11", "12">>

StrOf(i) == Digits[i]

NotAnId == 0 - 1

IntOf(s) ==
  IF \E i \in DOMAIN Digits : Digits[i] = s
  THEN CHOOSE i \in DOMAIN Digits : Digits[i] = s
  ELSE NotAnId

\* generate_password_hash / check_password_hash: a one-way hash of the
\* password, never the password itself
generate_password_hash(p) == [method |-> "pbkdf2:sha256", of |-> p]

check_password_hash(h, p) == p # None /\ h = generate_password_hash(p)

Roles == {"student", "teacher", "admin"}

(***************************************************************************)
(* Bounds of the model and the inputs the requests are drawn from.         *)
(***************************************************************************)
\* requests handled in one run
MaxRequests == 2

Clients == {"c1", "c2"}

Methods == {"GET", "POST"}

\* login: the names of the seed accounts and one of no account
LoginNames == {"admin", "teacher", "student", "ghost"}

PasswordInputs == {"admin123", "teacher123", "student123", "pw"}

\* register: a name that is taken and one that is free
UsernameInputs == {"admin", "bob"}

NewPasswordInputs == {"", "pw"}

RoleInputs == Roles \cup {"root", None}

TitleInputs == {None, "", "T"}

TopicIdInputs == {None, "1", "7"}

TextInputs == {None, "", "U"}

CorrectInputs == {"A", "B"}

AnswerInputs == {"A", "a", "A "}

NoForm == <<>>

(***************************************************************************)
(* State.                                                                  *)
(*   users      User rows; the id is the position (rows are never deleted) *)
(*   topics     Topic rows                                                 *)
(*   questions  Question rows                                              *)
(*   results    TestResult rows; the id is the position                    *)
(*   session    per client, the user id Flask-Login keeps in the cookie    *)
(*   pending    per client, a registration between its existence check and *)
(*              its commit                                                 *)
(*   last       the request handled last: handler, client, row id of the   *)
(*              URL, the form fields the handler read, and its outcome     *)
(*   nreq       requests handled so far                                    *)
(*   boot       create_initial_data: where the invocation in progress is   *)
(*              (pc), how many invocations have started (runs), and        *)
(*              whether one of them was stopped between its two commits    *)
(***************************************************************************)
VARIABLES users, topics, questions, results, session, pending, last, nreq, boot

store == <<users, topics, questions, results>>

vars == <<users, topics, questions, results, session, pending, last, nreq, boot>>

UserIds == 1..Len(users)

TopicIds == {t.id : t \in topics}

QuestionIds == {q.id : q \in questions}

TopicById(id) == CHOOSE t \in topics : t.id = id

QuestionById(id) == CHOOSE q \in questions : q.id = id

\* the rowid SQLite gives a new row of an INTEGER PRIMARY KEY table: one more
\* than the largest id present
NextId(ids) == IF ids = {} THEN 1 ELSE 1 + CHOOSE i \in ids : \A j \in ids : j <= i

\* Question.query.filter_by(topic_id=topic_id).all()
QuestionsOf(tid) == {q \in questions : q.topic_id = tid}

\* User.query.filter_by(username=username).first()
UserByName(name) == {u \in UserIds : users[u].username = name}

(***************************************************************************)
(* The seed accounts and the seeded curriculum (create_initial_data).      *)
(* The texts of the seed are abbreviated: "T" a question text, "A" and "B" *)
(* the correct option of the first and second question of a topic.  A      *)
(* seeded topic has no creator: admin.id is read before the first flush.   *)
(***************************************************************************)
SeedUsers ==
  << [username |-> "admin",   password |-> generate_password_hash("admin123"),   role |-> "admin"],
     [username |-> "teacher", password |-> generate_password_hash("teacher123"), role |-> "teacher"],
     [username |-> "student", password |-> generate_password_hash("student123"), role |-> "student"] >>

SeedTopic(i) == [id |-> i, title |-> "T", content |-> "T", created_by |-> NoId]

SeedQuestion(i) ==
  [id |-> i, topic_id |-> (i + 1) \div 2, text |-> "T",
   correct |-> IF i % 2 = 1 THEN "A" ELSE "B", created_by |-> 1]

\* topics of the seeded curriculum present when the run starts
KeptTopics == 2

\* a question the seeded teacher has added to the last kept topic, in place of
\* the topic's seeded questions, which the admin has deleted
TeacherQuestion ==
  [id |-> 2 * KeptTopics - 1, topic_id |-> KeptTopics, text |-> "T",
   correct |-> "A", created_by |-> 2]

\* a response without a JSON body
NoBody == <<>>

Idle ==
  [op |-> "none", client |-> "c1", id |-> NoId, form |-> NoForm, status |-> "none",
   body |-> NoBody]

\* create_initial_data has run once, to its end
Seeded == [pc |-> "returned", runs |-> 1, stopped |-> FALSE]

NoPending == [username |-> None, password |-> None]

(***************************************************************************)
(* Init: a store the requests below lead to from create_initial_data: the  *)
(* admin has deleted all but the first KeptTopics seeded topics and the    *)
(* two questions of the last of them, to which the teacher has added one;  *)
(* every client is logged out or logged in as a seed account.              *)
(***************************************************************************)
Init ==
  /\ users = SeedUsers
  /\ topics = {SeedTopic(i) : i \in 1..KeptTopics}
  /\ questions = {SeedQuestion(i) : i \in 1..(2 * KeptTopics - 2)} \cup {TeacherQuestion}
  /\ results = <<>>
  /\ session \in [Clients -> {NoId} \cup (1..Len(SeedUsers))]
  /\ pending = [c \in Clients |-> NoPending]
  /\ last = Idle
  /\ nreq = 0
  /\ boot = Seeded

(***************************************************************************)
(* Access checks: is_admin, is_teacher, login_required and the decorators.  *)
(***************************************************************************)
\* current_user: load_user reads the row of the session's user id at each request
is_authenticated(c) == session[c] # NoId

\* (the role the account had when its session began, kept with the session)
current_role_at_login(c) ==
  IF session[c] \in DOMAIN SeedUsers THEN SeedUsers[session[c]].role ELSE "student"

\* current_user.role: the role of the row load_user has read for this request
current_role(c) == users[session[c]].role

\* (a check of the login alone)
is_admin_any(c) == is_authenticated(c)

is_admin(c) == is_authenticated(c) /\ current_role(c) = "admin"

is_teacher(c) == is_authenticated(c) /\ current_role(c) \in {"teacher", "admin"}

\* the outcome of the decorators: "login_required" (redirect to login),
\* "denied" (flash and redirect to index) or "pass"
login_required(c) == IF is_authenticated(c) THEN "pass" ELSE "login_required"

\* (a decorator that checks the login alone)
require_admin_login(c) == login_required(c)

require_admin(c) ==
  IF ~is_authenticated(c) THEN "login_required"
  ELSE IF ~is_admin(c) THEN "denied" ELSE "pass"

require_teacher(c) ==
  IF ~is_authenticated(c) THEN "login_required"
  ELSE IF ~is_teacher(c) THEN "denied" ELSE "pass"

\* a client sends its next request when the one before has been answered
Ready(c) == nreq < MaxRequests /\ pending[c] = NoPending

\* one request handled: the record of the request and of its response
Responded(op, c, id, form, status, body) ==
  /\ nreq' = nreq + 1
  /\ last' = [op |-> op, client |-> c, id |-> id, form |-> form, status |-> status,
              body |-> body]
  /\ boot' = boot

Handled(op, c, id, form, status) == Responded(op, c, id, form, status, NoBody)

(***************************************************************************)
(* Sessions and registration.  Every handler draws the method and the form *)
(* of its request where the code reads them, after the checks before.      *)
(***************************************************************************)
\* a request that changes nothing in the store nor in the sessions
Refuse(op, c, id, status) ==
  Handled(op, c, id, NoForm, status) /\ UNCHANGED <<store, session, pending>>

\* (a failure branch that tells an unknown name from a wrong password)
login_failure_distinct(found) == IF found = {} THEN "no_such_user" ELSE "invalid"

\* the else branch of login: flash('Неверный логин или пароль') and the login
\* page, whatever made the condition false
login_failure(found) == "invalid"

\* a form is <<username, password>>
login(c) ==
  /\ Ready(c)
  /\ IF is_authenticated(c) THEN Refuse("login", c, NoId, "redirect")
     ELSE \E method \in Methods :
       IF method = "GET" THEN Refuse("login", c, NoId, "page")
       ELSE \E username \in LoginNames, password \in PasswordInputs :
         LET found == UserByName(username)
             user  == CHOOSE u \in found : TRUE
         IN  IF found # {} /\ check_password_hash(users[user].password, password)
             THEN /\ session' = [session EXCEPT ![c] = user]
                  /\ Handled("login", c, NoId, <<username, password>>, "ok")
                  /\ UNCHANGED <<store, pending>>
             ELSE /\ Handled("login", c, NoId, <<username, password>>, login_failure(found))
                  /\ UNCHANGED <<store, session, pending>>

logout(c) ==
  /\ Ready(c)
  /\ IF login_required(c) # "pass" THEN Refuse("logout", c, NoId, login_required(c))
     ELSE /\ session' = [session EXCEPT ![c] = NoId]
          /\ Handled("logout", c, NoId, NoForm, "ok")
          /\ UNCHANGED <<store, pending>>

\* register, up to the construction of new_user: the checks read the store, and
\* another request may commit before this one does
register(c) ==
  /\ Ready(c)
  /\ IF is_authenticated(c) THEN Refuse("register", c, NoId, "redirect")
     ELSE \E method \in Methods :
       IF method = "GET" THEN Refuse("register", c, NoId, "page")
       ELSE \E username \in UsernameInputs, password, confirm_password \in NewPasswordInputs :
         IF password # confirm_password THEN Refuse("register", c, NoId, "password_mismatch")
         ELSE IF UserByName(username) # {} THEN Refuse("register", c, NoId, "username_exists")
         ELSE /\ pending' = [pending EXCEPT ![c] =
                               [username |-> username,
                                password |-> generate_password_hash(password)]]
              /\ Handled("register", c, NoId, NoForm, "pending")
              /\ UNCHANGED <<store, session>>

\* (a column without the UNIQUE constraint)
unique_username_off(name) == TRUE

\* the UNIQUE constraint of User.username: the INSERT fails when the name is taken
unique_username(name) == UserByName(name) = {}

\* User(username=username, password=hashed_pw, role='student')
new_user(username, hashed_pw) ==
  [username |-> username, password |-> hashed_pw, role |-> "student"]

\* register, from db.session.add(new_user) on: the commit, or the caught exception
register_commit(c) ==
  /\ pending[c] # NoPending
  /\ pending' = [pending EXCEPT ![c] = NoPending]
  /\ IF unique_username(pending[c].username)
     THEN /\ users' = Append(users, new_user(pending[c].username, pending[c].password))
          /\ last' = [op |-> "register", client |-> c, id |-> Len(users) + 1,
                      form |-> NoForm, status |-> "ok", body |-> NoBody]
     ELSE /\ users' = users
          /\ last' = [op |-> "register", client |-> c, id |-> NoId,
                      form |-> NoForm, status |-> "error", body |-> NoBody]
  /\ UNCHANGED <<topics, questions, results, session, nreq, boot>>

(***************************************************************************)
(* The test: take_test.                                                    *)
(***************************************************************************)
\* request.form.get(key)
FormGet(form, key) == IF key \in DOMAIN form THEN form[key] ELSE None

\* (a comparison that folds the case of the answer)
is_correct_folded(question, form) ==
  LET a == FormGet(form, StrOf(question.id))
  IN  (IF a = "a" THEN "A" ELSE a) = question.correct

\* the loop of take_test: the questions whose submitted answer is the stored one
is_correct(question, form) == FormGet(form, StrOf(question.id)) = question.correct

Score(qs, form) == Cardinality({q \in qs : is_correct(q, form)})

\* (score / len(questions)) * 100
Percentage(score, total) == FloatMulInt(FloatDiv(score, total), 100)

\* (no check of the empty question list)
NoQuestions_off(qs) == FALSE

\* `if not questions`
NoQuestions(qs) == qs = {}

\* the forms a client may submit for a set of questions: an answer, or none, for each
AnswerForms(qs) ==
  UNION {[keys -> AnswerInputs] : keys \in SUBSET {StrOf(q.id) : q \in qs}}

\* TestResult(user_id=current_user.id, topic_id=topic_id, score=score, ...)
NewResult(c, topic_id, qs, form) ==
  [user_id    |-> session[c],
   topic_id   |-> topic_id,
   score      |-> Score(qs, form),
   total      |-> Cardinality(qs),
   percentage |-> Percentage(Score(qs, form), Cardinality(qs))]

\* (one row per user and topic: a new attempt replaces the old one)
AddResult_upsert(result) ==
  LET old == {i \in 1..Len(results) : /\ results[i].user_id = result.user_id
                                      /\ results[i].topic_id = result.topic_id}
  IN  IF old = {} THEN Append(results, result)
      ELSE [i \in 1..Len(results) |-> IF i \in old THEN result ELSE results[i]]

\* db.session.add(result); db.session.commit(): one more row
AddResult(result) == Append(results, result)

take_test(c, topic_id) ==
  /\ Ready(c)
  /\ LET qs == QuestionsOf(topic_id)
     IN  IF login_required(c) # "pass" THEN Refuse("take_test", c, topic_id, login_required(c))
         ELSE IF topic_id \notin TopicIds THEN Refuse("take_test", c, topic_id, "not_found")
         ELSE IF NoQuestions(qs) THEN Refuse("take_test", c, topic_id, "no_questions")
         ELSE \E method \in Methods :
           IF method = "GET" THEN Refuse("take_test", c, topic_id, "page")
           ELSE \E form \in AnswerForms(qs) :
             IF Cardinality(qs) = 0
             THEN \* ZeroDivisionError, which no handler catches
                  Handled("take_test", c, topic_id, form, "exception")
                  /\ UNCHANGED <<store, session, pending>>
             ELSE \E committed \in BOOLEAN :
               IF committed
               THEN /\ results' = AddResult(NewResult(c, topic_id, qs, form))
                    /\ Handled("take_test", c, topic_id, form, "ok")
                    /\ UNCHANGED <<users, topics, questions, session, pending>>
               ELSE \* db.session.commit() raises (the database is locked or
                    \* full); take_test has no try/except, the error leaves
                    \* the handler and no row is stored
                    /\ Handled("take_test", c, topic_id, form, "commit_error")
                    /\ UNCHANGED <<store, session, pending>>

(***************************************************************************)
(* Topics (admin).  A form is <<title, content>>.                          *)
(***************************************************************************)
TopicForms == TitleInputs \X TitleInputs

\* the NOT NULL columns: the commit raises IntegrityError when one is None
NotNull(values) == \A i \in DOMAIN values : values[i] # None

admin_add_topic(c) ==
  /\ Ready(c)
  /\ IF require_admin(c) # "pass" THEN Refuse("admin_add_topic", c, NoId, require_admin(c))
     ELSE \E method \in Methods :
       IF method = "GET" THEN Refuse("admin_add_topic", c, NoId, "page")
       ELSE \E form \in TopicForms :
         IF ~Truthy(form[1]) \/ ~Truthy(form[2])
         THEN Handled("admin_add_topic", c, NoId, form, "invalid")
              /\ UNCHANGED <<store, session, pending>>
         ELSE /\ topics' = topics \cup {[id |-> NextId(TopicIds), title |-> form[1],
                                         content |-> form[2], created_by |-> session[c]]}
              /\ Handled("admin_add_topic", c, NextId(TopicIds), form, "ok")
              /\ UNCHANGED <<users, questions, results, session, pending>>

admin_edit_topic(c, topic_id) ==
  /\ Ready(c)
  /\ IF require_admin(c) # "pass" THEN Refuse("admin_edit_topic", c, topic_id, require_admin(c))
     ELSE IF topic_id \notin TopicIds THEN Refuse("admin_edit_topic", c, topic_id, "not_found")
     ELSE \E method \in Methods :
       IF method = "GET" THEN Refuse("admin_edit_topic", c, topic_id, "page")
       ELSE \E form \in TopicForms :
         IF ~NotNull(form)
         THEN Handled("admin_edit_topic", c, topic_id, form, "error")
              /\ UNCHANGED <<store, session, pending>>
         ELSE /\ topics' = (topics \ {TopicById(topic_id)}) \cup
                             {[TopicById(topic_id) EXCEPT !.title = form[1], !.content = form[2]]}
              /\ Handled("admin_edit_topic", c, topic_id, form, "ok")
              /\ UNCHANGED <<users, questions, results, session, pending>>

\* (a relationship without the cascade)
CascadeDelete_off(topic_id) == questions

\* Topic.questions, cascade='all, delete-orphan': the questions left when the
\* topic's own are deleted with it
CascadeDelete(topic_id) == questions \ QuestionsOf(topic_id)

admin_delete_topic(c, topic_id) ==
  /\ Ready(c)
  /\ IF require_admin(c) # "pass" THEN Refuse("admin_delete_topic", c, topic_id, require_admin(c))
     ELSE IF topic_id \notin TopicIds THEN Refuse("admin_delete_topic", c, topic_id, "not_found")
     ELSE /\ topics' = topics \ {TopicById(topic_id)}
          /\ questions' = CascadeDelete(topic_id)
          /\ Handled("admin_delete_topic", c, topic_id, NoForm, "ok")
          /\ UNCHANGED <<users, results, session, pending>>

(***************************************************************************)
(* Questions (admin and teacher).  A form is <<topic_id, text, correct>>.  *)
(***************************************************************************)
QuestionForms == TopicIdInputs \X TextInputs \X CorrectInputs

\* Question(topic_id=..., text=..., correct=..., created_by=current_user.id)
NewQuestion(c, form) ==
  [id |-> NextId(QuestionIds), topic_id |-> IntOf(form[1]), text |-> form[2],
   correct |-> form[3], created_by |-> session[c]]

\* the assignments question.topic_id = request.form.get('topic_id'), ...
EditedQuestion(question, form) ==
  [question EXCEPT !.topic_id = IntOf(form[1]), !.text = form[2], !.correct = form[3]]

\* the body shared by admin_add_question and teacher_add_question
AddQuestion(op, c) ==
  \E method \in Methods :
    IF method = "GET" THEN Refuse(op, c, NoId, "page")
    ELSE \E form \in QuestionForms :
      IF ~(Truthy(form[1]) /\ Truthy(form[2]) /\ Truthy(form[3]))
      THEN Handled(op, c, NoId, form, "invalid") /\ UNCHANGED <<store, session, pending>>
      ELSE /\ questions' = questions \cup {NewQuestion(c, form)}
           /\ Handled(op, c, NextId(QuestionIds), form, "ok")
           /\ UNCHANGED <<users, topics, results, session, pending>>

\* the body shared by admin_edit_question and teacher_edit_question
EditQuestion(op, c, question_id) ==
  \E method \in Methods :
    IF method = "GET" THEN Refuse(op, c, question_id, "page")
    ELSE \E form \in QuestionForms :
      IF ~NotNull(form)
      THEN Handled(op, c, question_id, form, "error") /\ UNCHANGED <<store, session, pending>>
      ELSE /\ questions' = (questions \ {QuestionById(question_id)}) \cup
                             {EditedQuestion(QuestionById(question_id), form)}
           /\ Handled(op, c, question_id, form, "ok")
           /\ UNCHANGED <<users, topics, results, session, pending>>

admin_add_question(c) ==
  /\ Ready(c)
  /\ IF require_admin(c) # "pass" THEN Refuse("admin_add_question", c, NoId, require_admin(c))
     ELSE AddQuestion("admin_add_question", c)

admin_edit_question(c, question_id) ==
  /\ Ready(c)
  /\ IF require_admin(c) # "pass"
     THEN Refuse("admin_edit_question", c, question_id, require_admin(c))
     ELSE IF question_id \notin QuestionIds
     THEN Refuse("admin_edit_question", c, question_id, "not_found")
     ELSE EditQuestion("admin_edit_question", c, question_id)

admin_delete_question(c, question_id) ==
  /\ Ready(c)
  /\ IF require_admin(c) # "pass"
     THEN Refuse("admin_delete_question", c, question_id, require_admin(c))
     ELSE IF question_id \notin QuestionIds
     THEN Refuse("admin_delete_question", c, question_id, "not_found")
     ELSE /\ questions' = questions \ {QuestionById(question_id)}
          /\ Handled("admin_delete_question", c, question_id, NoForm, "ok")
          /\ UNCHANGED <<users, topics, results, session, pending>>

teacher_add_question(c) ==
  /\ Ready(c)
  /\ IF require_teacher(c) # "pass" THEN Refuse("teacher_add_question", c, NoId, require_teacher(c))
     ELSE AddQuestion("teacher_add_question", c)

\* (no ownership check)
not_own_question_off(owner_id, user_id, role) == FALSE

\* (an ownership check that lets a question without owner through)
not_own_question_null(owner_id, user_id, role) ==
  owner_id # user_id /\ owner_id # NoId /\ role # "admin"

\* `question.created_by != current_user.id and current_user.role != 'admin'`
not_own_question(owner_id, user_id, role) == owner_id # user_id /\ role # "admin"

teacher_edit_question(c, question_id) ==
  /\ Ready(c)
  /\ IF require_teacher(c) # "pass"
     THEN Refuse("teacher_edit_question", c, question_id, require_teacher(c))
     ELSE IF question_id \notin QuestionIds
     THEN Refuse("teacher_edit_question", c, question_id, "not_found")
     ELSE IF not_own_question(QuestionById(question_id).created_by, session[c], current_role(c))
     THEN Refuse("teacher_edit_question", c, question_id, "not_owner")
     ELSE EditQuestion("teacher_edit_question", c, question_id)

(***************************************************************************)
(* Users (admin).  A form is <<role, password>>.                           *)
(***************************************************************************)
UserForms == RoleInputs \X NewPasswordInputs

admin_edit_user(c, user_id) ==
  /\ Ready(c)
  /\ IF require_admin(c) # "pass" THEN Refuse("admin_edit_user", c, user_id, require_admin(c))
     ELSE IF user_id \notin UserIds THEN Refuse("admin_edit_user", c, user_id, "not_found")
     ELSE \E method \in Methods :
       IF method = "GET" THEN Refuse("admin_edit_user", c, user_id, "page")
       ELSE \E form \in UserForms :
         /\ users' = [users EXCEPT
                        ![user_id].role = form[1],
                        ![user_id].password =
                           IF Truthy(form[2]) THEN generate_password_hash(form[2]) ELSE @]
         /\ Handled("admin_edit_user", c, user_id, form, "ok")
         /\ UNCHANGED <<topics, questions, results, session, pending>>

(***************************************************************************)
(* Statistics: get_stats.                                                  *)
(***************************************************************************)
\* `if current_user.role != 'admin'`
stats_denied(role) == role # "admin"

\* (a count of the seed accounts instead of the rows)
stats_seed == <<Len(SeedUsers), Cardinality(topics), Cardinality(questions), Len(results)>>

\* the JSON object of the counts: <<users, topics, questions, results>>
stats == <<Len(users), Cardinality(topics), Cardinality(questions), Len(results)>>

get_stats(c) ==
  /\ Ready(c)
  /\ IF login_required(c) # "pass" THEN Refuse("get_stats", c, NoId, login_required(c))
     ELSE IF stats_denied(current_role(c)) THEN Refuse("get_stats", c, NoId, "forbidden")
     ELSE /\ Responded("get_stats", c, NoId, NoForm, "ok", stats)
          /\ UNCHANGED <<store, session, pending>>

(***************************************************************************)
(* The specification.  The ids of a URL are those of the rows plus one     *)
(* that names no row.                                                      *)
(***************************************************************************)
TopicUrls == TopicIds \cup {NextId(TopicIds)}

QuestionUrls == QuestionIds \cup {NextId(QuestionIds)}

UserUrls == UserIds \cup {Len(users) + 1}

Next ==
  \/ \E c \in Clients : login(c)
  \/ \E c \in Clients : logout(c)
  \/ \E c \in Clients : register(c)
  \/ \E c \in Clients : register_commit(c)
  \/ \E c \in Clients, t \in TopicUrls : take_test(c, t)
  \/ \E c \in Clients : admin_add_topic(c)
  \/ \E c \in Clients, t \in TopicUrls : admin_edit_topic(c, t)
  \/ \E c \in Clients, t \in TopicUrls : admin_delete_topic(c, t)
  \/ \E c \in Clients : admin_add_question(c)
  \/ \E c \in Clients, q \in QuestionUrls : admin_edit_question(c, q)
  \/ \E c \in Clients, q \in QuestionUrls : admin_delete_question(c, q)
  \/ \E c \in Clients : teacher_add_question(c)
  \/ \E c \in Clients, q \in QuestionUrls : teacher_edit_question(c, q)
  \/ \E c \in Clients, u \in UserUrls : admin_edit_user(c, u)
  \/ \E c \in Clients : get_stats(c)

Spec == Init /\ [][Next]_vars

(***************************************************************************)
(* The ownership check of teacher_edit_question on its whole domain.       *)
(* Question.created_by is a nullable column, and the check reads it as it  *)
(* is: here the question's creator is an input, a user id or NULL, and the *)
(* requests are those of teacher_edit_question.                            *)
(***************************************************************************)
InitOwner ==
  /\ users = SeedUsers
  /\ topics = {SeedTopic(1)}
  /\ \E owner \in {NoId} \cup (1..Len(SeedUsers)) :
        questions = {[SeedQuestion(1) EXCEPT !.created_by = owner]}
  /\ results = <<>>
  /\ session \in [Clients -> {NoId} \cup (1..Len(SeedUsers))]
  /\ pending = [c \in Clients |-> NoPending]
  /\ last = Idle
  /\ nreq = 0
  /\ boot = Seeded

NextOwner == \E c \in Clients, q \in QuestionUrls : teacher_edit_question(c, q)

SpecOwner == InitOwner /\ [][NextOwner]_vars

(***************************************************************************)
(* Seeding: create_initial_data, from a database without tables.  The      *)
(* function commits twice: the accounts and the topics, then the           *)
(* questions.  Between the two commits the process may be stopped, and     *)
(* requests of a server on the same database may be handled.               *)
(***************************************************************************)
\* the entries of topics_data; questions_data has two for each
SeedTopicCount == 5

\* invocations of create_initial_data in one run
MaxBoots == 3

\* no invocation yet: the database has no tables
NotBooted == [pc |-> "idle", runs |-> 0, stopped |-> FALSE]

\* (a seeding that does not look for the admin account)
admin_missing_unchecked == TRUE

\* `if not User.query.filter_by(username='admin').first()`
admin_missing == UserByName("admin") = {}

\* Topic.query.all()[n - 1].id: the rows come in the order of their ids
NthTopicId(n) == CHOOSE i \in TopicIds : Cardinality({j \in TopicIds : j < i}) = n - 1

\* the invocation up to its first commit: db.create_all(), the check for the
\* admin account, the three accounts and the topics
create_initial_data ==
  /\ boot.pc # "seeding"
  /\ boot.runs < MaxBoots
  /\ IF ~admin_missing
     THEN /\ boot' = [boot EXCEPT !.pc = "returned", !.runs = @ + 1]
          /\ UNCHANGED store
     ELSE IF \E i \in DOMAIN SeedUsers : ~unique_username(SeedUsers[i].username)
     THEN \* IntegrityError of the first commit, which nothing catches
          /\ boot' = [boot EXCEPT !.pc = "raised", !.runs = @ + 1]
          /\ UNCHANGED store
     ELSE /\ users' = users \o SeedUsers
          /\ topics' = topics \cup
               {[SeedTopic(i) EXCEPT !.id = NextId(TopicIds) + i - 1] : i \in 1..SeedTopicCount}
          /\ boot' = [boot EXCEPT !.pc = "seeding", !.runs = @ + 1]
          /\ UNCHANGED <<questions, results>>
  /\ UNCHANGED <<session, pending, last, nreq>>

\* the invocation from Topic.query.all() to its second commit and its return
create_initial_data_questions ==
  /\ boot.pc = "seeding"
  /\ questions' = questions \cup
       {[SeedQuestion(i) EXCEPT !.id = NextId(QuestionIds) + i - 1,
                                !.topic_id = NthTopicId((i + 1) \div 2),
                                !.created_by = CHOOSE u \in UserByName("admin") : TRUE] :
          i \in 1..(2 * SeedTopicCount)}
  /\ boot' = [boot EXCEPT !.pc = "returned"]
  /\ UNCHANGED <<users, topics, results, session, pending, last, nreq>>

\* the process is stopped between the two commits
create_initial_data_stop ==
  /\ boot.pc = "seeding"
  /\ boot' = [boot EXCEPT !.pc = "stopped", !.stopped = TRUE]
  /\ UNCHANGED <<store, session, pending, last, nreq>>

InitSeed ==
  /\ users = <<>>
  /\ topics = {}
  /\ questions = {}
  /\ results = <<>>
  /\ session = [c \in Clients |-> NoId]
  /\ pending = [c \in Clients |-> NoPending]
  /\ last = Idle
  /\ nreq = 0
  /\ boot = NotBooted

\* the tables exist from the first db.create_all() on
TablesExist == boot.runs > 0

NextSeed ==
  \/ create_initial_data
  \/ create_initial_data_questions
  \/ create_initial_data_stop
  \/ TablesExist /\ \E c \in Clients : login(c)
  \/ TablesExist /\ \E c \in Clients : register(c)
  \/ TablesExist /\ \E c \in Clients : register_commit(c)
  \/ TablesExist /\ \E c \in Clients, t \in TopicUrls : take_test(c, t)
  \/ TablesExist /\ \E c \in Clients : get_stats(c)

SpecSeed == InitSeed /\ [][NextSeed]_vars

(***************************************************************************)
(* Properties.  A step that handles a request sets `last` to that request; *)
(* the one step that does not count a request is register_commit, which    *)
(* finishes the registration counted when it started.                      *)
(***************************************************************************)
\* the step handles a request of handler op from its start
Handles(op) == nreq' = nreq + 1 /\ last'.op = op

\* the role of the acting user of the request, before the request
ActorRole == IF session[last'.client] = NoId THEN "anonymous"
             ELSE users[session[last'.client]].role

LastResult == results[Len(results)]

\* the value of a float times n is the integer k
FloatTimesIs(x, n, k) ==
  IF x = FloatZero THEN k = 0
  ELSE x.e <= 0 /\ Trim(MulSmall(x.m, n, 0)) = ShiftLeft(NatOf(k), 0 - x.e)

\* the value of a float times n is within k * 2^-(MantBits - 3) of the integer k
FloatTimesNear(x, n, k) ==
  IF x = FloatZero THEN k = 0
  ELSE /\ x.e <= 0
       /\ LeqNat(ShiftLeft(AbsDiffNat(Trim(MulSmall(x.m, n, 0)), ShiftLeft(NatOf(k), 0 - x.e)),
                           MantBits - 3),
                 ShiftLeft(NatOf(k), 0 - x.e))

\* the last request is a test submission that was scored
Scored == last.op = "take_test" /\ last.status \in {"ok", "exception"}

\* the score and the total the claim gives for the submission handled last
ExactMatches ==
  {q \in questions : /\ q.topic_id = last.id
                     /\ StrOf(q.id) \in DOMAIN last.form
                     /\ last.form[StrOf(q.id)] = q.correct}

ScoredAsClaimed ==
  /\ last.status = "ok"
  /\ results # <<>>
  /\ LastResult.user_id = session[last.client]
  /\ LastResult.topic_id = last.id
  /\ LastResult.score = Cardinality(ExactMatches)
  /\ LastResult.total = Cardinality({q \in questions : q.topic_id = last.id})

\* C1 (as stated): a scored submission persists score = the number of exact
\* matches, total = the number of the topic's questions, and a percentage with
\* percentage * total = score * 100 exactly.
C1_Exact ==
  Scored => /\ ScoredAsClaimed
            /\ FloatTimesIs(LastResult.percentage, LastResult.total, LastResult.score * 100)

\* C1 (amended): a scored submission persists score = the number of exact
\* (case-sensitive, untrimmed) matches, an unanswered question counting as
\* incorrect, total = the number of the topic's questions, and a percentage
\* that is score / total * 100 within floating-point tolerance: percentage *
\* total differs from score * 100 by at most score * 100 * 2^-50.
C1_Scoring ==
  Scored => /\ ScoredAsClaimed
            /\ FloatTimesNear(LastResult.percentage, LastResult.total, LastResult.score * 100)

\* a submission on a topic of three questions: one answered exactly, one
\* answered in the wrong case or with a trailing blank, one not answered
C1_Witness ==
  /\ Scored
  /\ LastResult.total = 3
  /\ LastResult.score = 1
  /\ \E q \in QuestionsOf(last.id) : StrOf(q.id) \notin DOMAIN last.form
  /\ \E q \in QuestionsOf(last.id) :
        /\ StrOf(q.id) \in DOMAIN last.form
        /\ last.form[StrOf(q.id)] \in {"a", "A "}
        /\ q.correct = "A"

\* C2: every persisted TestResult has total >= 1 and 0 <= score <= total, no
\* submission ends in a division by zero, and a GET or POST of a logged-in user
\* to take_test for a topic without questions is answered by the redirect.
C2_NoEmptyTest ==
  /\ \A i \in 1..Len(results) :
        results[i].total >= 1 /\ 0 <= results[i].score /\ results[i].score <= results[i].total
  /\ last.status # "exception"
  /\ (/\ last.op = "take_test"
      /\ last.id \in TopicIds
      /\ QuestionsOf(last.id) = {}
      /\ last.status # "login_required") => last.status = "no_questions"

\* a logged-in user's request for the test of a topic that has no question
C2_Witness ==
  /\ last.op = "take_test"
  /\ last.status = "no_questions"
  /\ last.id \in TopicIds
  /\ QuestionsOf(last.id) = {}
  /\ results = <<>>

\* C3: the TestResult log is append-only: a step leaves every row of the log as
\* it is, and adds a row, exactly one, exactly when it is a scored submission.
C3_AppendOnly ==
  [][/\ Len(results') >= Len(results)
     /\ SubSeq(results', 1, Len(results)) = results
     /\ Len(results') = Len(results) +
          (IF Handles("take_test") /\ last'.status = "ok" THEN 1 ELSE 0)]_vars

\* two attempts of one user at one topic, both in the log
C3_Witness ==
  /\ Len(results) = 2
  /\ results[1].user_id = results[2].user_id
  /\ results[1].topic_id = results[2].topic_id
  /\ results[1].score # results[2].score

\* C4: admin_delete_topic of topic T removes T, every question of T and no
\* other question, and leaves the TestResult log, the rows of T included, as it is.
C4_DeleteTopic ==
  [][(Handles("admin_delete_topic") /\ last'.status = "ok") =>
       /\ topics' = {t \in topics : t.id # last'.id}
       /\ questions' = {q \in questions : q.topic_id # last'.id}
       /\ results' = results
       /\ users' = users]_vars

\* a topic with questions and a result was deleted; its result and the
\* questions of another topic are still there
C4_Witness ==
  /\ last.op = "admin_delete_topic"
  /\ last.status = "ok"
  /\ \E i \in 1..Len(results) : results[i].topic_id = last.id
  /\ last.id \notin TopicIds
  /\ questions # {}
  /\ Cardinality(questions) < 2 * KeptTopics - 1

\* C5: through teacher_edit_question, a teacher's request for a question
\* created by another user is denied and changes nothing; a teacher's request
\* for an own question, and an admin's for any, is not denied, and its POST
\* with every field present replaces the question's fields by the form's.
C5_TeacherEdit ==
  [][(Handles("teacher_edit_question") /\ last'.id \in QuestionIds) =>
       LET q    == QuestionById(last'.id)
           own  == q.created_by = session[last'.client]
           f    == last'.form
       IN  /\ (ActorRole = "teacher" /\ ~own) =>
                 (last'.status = "not_owner" /\ store' = store)
           /\ ((ActorRole = "teacher" /\ own) \/ ActorRole = "admin") =>
                 /\ last'.status \in {"page", "ok", "error"}
                 /\ (f # NoForm /\ NotNull(f)) => last'.status = "ok"
                 /\ last'.status = "ok" =>
                      /\ f # NoForm
                      /\ questions' = {x \in questions : x.id # q.id} \cup
                           {[id |-> q.id, topic_id |-> IntOf(f[1]), text |-> f[2],
                             correct |-> f[3], created_by |-> q.created_by]}
                      /\ users' = users /\ topics' = topics /\ results' = results]_vars

\* the teacher has changed the own question
C5_Witness ==
  /\ last.op = "teacher_edit_question"
  /\ last.status = "ok"
  /\ session[last.client] # NoId
  /\ users[session[last.client]].role = "teacher"
  /\ QuestionById(last.id).created_by = session[last.client]
  /\ QuestionById(last.id).correct = "B"

AdminOps ==
  {"admin_add_topic", "admin_edit_topic", "admin_delete_topic", "admin_add_question",
   "admin_edit_question", "admin_delete_question", "admin_edit_user"}

TeacherOps == {"teacher_add_question", "teacher_edit_question"}

\* C7: an admin operation requested by a user who is not an admin, and a
\* teacher operation requested by a user who is neither teacher nor admin, is
\* refused (to the login page when not logged in, with "access denied"
\* otherwise) and leaves users, topics, questions and results as they were.
C7_RefusedUnchanged ==
  [][(/\ nreq' = nreq + 1
      /\ \/ last'.op \in AdminOps /\ ActorRole # "admin"
         \/ last'.op \in TeacherOps /\ ActorRole \notin {"teacher", "admin"})
       => /\ store' = store
          /\ last'.status = (IF ActorRole = "anonymous" THEN "login_required" ELSE "denied")]_vars

\* a teacher was refused the edit of a user
C7_Witness ==
  /\ last.op = "admin_edit_user"
  /\ last.status = "denied"
  /\ session[last.client] # NoId
  /\ users[session[last.client]].role = "teacher"

\* C8: in every reachable state every user's role is student, teacher or admin.
C8_RolesClosed == \A u \in UserIds : users[u].role \in Roles

\* C9: a user row is added only by a registration and then with the role
\* student; the row of an existing user (its role, its password) changes only
\* in an admin_edit_user request for that user whose acting user is an admin
\* when the request is made.
C9_AdminOnly ==
  [][/\ Len(users') >= Len(users)
     /\ \A u \in 1..Len(users) :
          users'[u] # users[u] =>
            /\ users'[u].username = users[u].username
            /\ Handles("admin_edit_user")
            /\ last'.id = u
            /\ ActorRole = "admin"
     /\ Len(users') > Len(users) =>
          /\ Len(users') = Len(users) + 1
          /\ last'.op = "register"
          /\ users'[Len(users')].role = "student"]_vars

\* an admin has made a teacher of a user who registered
C9_Witness ==
  /\ last.op = "admin_edit_user"
  /\ last.status = "ok"
  /\ last.id > Len(SeedUsers)
  /\ users[last.id].role = "teacher"
  /\ users[last.id].password = generate_password_hash("pw")

\* C10: no two user rows have the same username, whatever the order in which
\* the checks and the commits of concurrent registrations run.
C10_UniqueUsernames ==
  \A u, v \in UserIds : users[u].username = users[v].username => u = v

\* two registrations of one name both passed the existence check; one has
\* committed and the other was refused at its commit
C10_Witness ==
  /\ last.op = "register"
  /\ last.status = "error"
  /\ Len(users) = Len(SeedUsers) + 1
  /\ \A c \in Clients : pending[c] = NoPending

C12_SeedIdempotent ==
  [][(boot'.runs = boot.runs + 1 /\ boot.pc = "returned" /\ ~boot.stopped) =>
       /\ boot'.pc = "returned"
       /\ store' = store
       /\ \A i \in DOMAIN SeedUsers :
            Cardinality({u \in UserIds : users[u].username = SeedUsers[i].username}) = 1
       /\ Cardinality(topics) = SeedTopicCount
       /\ Cardinality(questions) = 2 * SeedTopicCount]_vars

\* create_initial_data has run twice, each time to its end
C12_Witness ==
  /\ boot = [pc |-> "returned", runs |-> 2, stopped |-> FALSE]
  /\ Cardinality(topics) = SeedTopicCount
  /\ Cardinality(questions) = 2 * SeedTopicCount
  /\ Len(users) = Len(SeedUsers)

\* C17: whenever an invocation of create_initial_data has returned, the store
\* holds the admin, teacher and student seed accounts and every seeded topic
\* has its two seeded questions, also after an invocation that was stopped
\* between its first and its second commit.
C17_SafeOnEveryStartup ==
  boot.pc = "returned" =>
    /\ \A i \in DOMAIN SeedUsers : UserByName(SeedUsers[i].username) # {}
    /\ \A t \in topics : Cardinality(QuestionsOf(t.id)) = 2

AddQuestionOps == {"admin_add_question", "teacher_add_question"}

\* C13: a request that creates a question with a topic_id of no topic ends
\* with a validation error and stores no question, and every question a
\* create request stores has the topic_id of a topic.
C13_TopicMustExist ==
  [][(nreq' = nreq + 1 /\ last'.op \in AddQuestionOps) =>
       /\ (last'.form # NoForm /\ IntOf(last'.form[1]) \notin TopicIds) =>
             (last'.status \in {"invalid", "error"} /\ questions' = questions)
       /\ \A q \in questions' \ questions : q.topic_id \in TopicIds]_vars

UpdateOps == {"admin_edit_topic", "admin_edit_question", "teacher_edit_question"}

\* C14: an update of a topic or of a question whose form has a mandatory field
\* missing or empty fails as a whole: it ends with an error and the store is
\* as it was.
C14_FailedUpdateAtomic ==
  [][(/\ nreq' = nreq + 1
      /\ last'.op \in UpdateOps
      /\ last'.form # NoForm
      /\ \E i \in DOMAIN last'.form : ~Truthy(last'.form[i]))
       => (last'.status = "error" /\ store' = store)]_vars

\* C15: when the persistence of a submission's TestResult fails, take_test
\* catches the failure and reports a submission failure (the error does not
\* leave the handler), and the log of results is as it was.
C15_PersistFailureCaught ==
  [][(Handles("take_test") /\ last'.status \in {"commit_error", "submission_failed"}) =>
       (last'.status = "submission_failed" /\ results' = results)]_vars

\* C16: get_stats answers an admin with the counts of users, topics, questions
\* and results, each the number of rows of that kind in the store at the time
\* of the request, and answers every logged-in user who is not an admin with
\* the access-denied status and no counts.
C16_Stats ==
  (last.op = "get_stats" /\ session[last.client] # NoId) =>
    IF users[session[last.client]].role = "admin"
    THEN /\ last.status = "ok"
         /\ last.body = <<Len(users), Cardinality(topics), Cardinality(questions), Len(results)>>
    ELSE /\ last.status = "forbidden"
         /\ last.body = NoBody

\* an admin got the counts of a store that a request before has changed
C16_Witness ==
  /\ last.op = "get_stats"
  /\ last.status = "ok"
  /\ last.body # <<Len(SeedUsers), KeptTopics, 2 * KeptTopics - 1, 0>>

\* C18: access is decided by the role stored for the user when the request is
\* made, not by the role held at login: a request of a logged-in user for an
\* admin operation (get_stats included) is refused exactly when the user's
\* stored role is not admin, and one for a teacher operation exactly when it
\* is neither teacher nor admin, whatever the role was when the session began.
C18_RoleAtRequest ==
  [][(/\ nreq' = nreq + 1
      /\ session[last'.client] # NoId
      /\ last'.op \in AdminOps \cup TeacherOps \cup {"get_stats"})
       => LET allowed == IF last'.op \in TeacherOps
                         THEN ActorRole \in {"teacher", "admin"}
                         ELSE ActorRole = "admin"
          IN  /\ last'.status \in {"denied", "forbidden"} <=> ~allowed
              /\ last'.status # "login_required"
              /\ ~allowed => store' = store]_vars

\* the seeded admin, demoted by an admin_edit_user request while logged in, was
\* refused an admin operation in the same session
C18_Witness ==
  /\ last.op \in AdminOps
  /\ last.status = "denied"
  /\ session[last.client] = 1
  /\ users[1].role \in {"student", "teacher"}
  /\ nreq = 2

====
